---- MODULE Spec2Model ----
(***************************************************************************)
(* PDPy11 compiler backend (compiler/compiler.py): the directive           *)
(* interpreter (Compiler.handleCommand), the emitters (writeByte,          *)
(* writeWord, writeBytes) and the linker (Compiler.link).                  *)
(*                                                                         *)
(* Lazy values (deferred.Deferred, expression.Expression) are kept as      *)
(* expression trees and are evaluated only where the code evaluates them:  *)
(* in link() and for the count of .REPEAT.                                 *)
(***************************************************************************)
EXTENDS Integers, Sequences, FiniteSets, TLC

VARIABLES labels, PC, link_address, writes, build, project,
          array, output, phase, error, history, active

vars == <<labels, PC, link_address, writes, build, project,
          array, output, phase, error, history, active>>

\* Number of commands read from the top-level command stream.
MaxCmds == 3

-----------------------------------------------------------------------------
(* Lazy value nodes.  Every node is a record of the same shape.  (Record   *)
(* constructors of this module list their fields in TLC's own field order.)*)

Node(op, val, name, args) ==
    [op |-> op, val |-> val, name |-> name, args |-> args]

Lit(n)        == Node("lit", n, "", <<>>)
BoolLit(b)    == Node("bool", IF b THEN 1 ELSE 0, "", <<>>)
Sym(s)        == Node("sym", 0, s, <<>>)
NoneE         == Node("none", 0, "", <<>>)
ListLit(xs)   == Node("list", 0, "", [i \in 1..Len(xs) |-> Lit(xs[i])])
Bin(op, a, b) == Node(op, 0, "", <<a, b>>)
Then(f, a)    == Node("then", 0, f, <<a>>)
LenOf(a)      == Node("len", 0, "", <<a>>)
Repeat(c, e)  == Node("repeat", 0, "", <<c, e>>)
If(c, a, b)   == Node("if", 0, "", <<c, a, b>>)

IsLit(e) == e.op = "lit"

\* Python evaluates an operator on two ints at once; with a lazy operand the
\* overloaded operator builds a new lazy value.
Add(a, b) == IF IsLit(a) /\ IsLit(b) THEN Lit(a.val + b.val) ELSE Bin("+", a, b)
Sub(a, b) == IF IsLit(a) /\ IsLit(b) THEN Lit(a.val - b.val) ELSE Bin("-", a, b)
Mul(a, b) == IF IsLit(a) /\ IsLit(b) THEN Lit(a.val * b.val) ELSE Bin("*", a, b)
Mod(a, b) == IF IsLit(a) /\ IsLit(b) /\ b.val > 0
             THEN Lit(a.val % b.val) ELSE Bin("%", a, b)
Eq(a, b)  == IF IsLit(a) /\ IsLit(b) THEN BoolLit(a.val = b.val) ELSE Bin("==", a, b)

-----------------------------------------------------------------------------
(* Results of evaluating a lazy value.                                     *)

OkInt(n)  == [err |-> "", kind |-> "int", int |-> n, list |-> <<>>]
OkBool(b) == [err |-> "", kind |-> "bool", int |-> IF b THEN 1 ELSE 0, list |-> <<>>]
OkList(l) == [err |-> "", kind |-> "list", int |-> 0, list |-> l]
Fail(msg) == [err |-> msg, kind |-> "err", int |-> 0, list |-> <<>>]

UndefinedSymbol == "undefined symbol"
CircularSymbol  == "circular reference"
TypeMismatch    == "type mismatch"

\* The failures that are ExpressionEvaluateError, as opposed to CompilerError.
IsEvaluateError(msg) == msg \in {UndefinedSymbol, CircularSymbol, TypeMismatch}

-----------------------------------------------------------------------------
(* Python's integer operators used on emitted words.                       *)

RECURSIVE BitAnd(_, _)
BitAnd(a, b) ==
    IF b = 0 THEN 0
    ELSE (a % 2) * (b % 2) + 2 * BitAnd(a \div 2, b \div 2)

RECURSIVE BitOr(_, _)
BitOr(a, b) ==
    IF a = 0 THEN b
    ELSE IF b = 0 THEN a
    ELSE IF a = -1 \/ b = -1 THEN -1
    ELSE (IF a % 2 = 1 \/ b % 2 = 1 THEN 1 ELSE 0) + 2 * BitOr(a \div 2, b \div 2)

RECURSIVE Pow2(_)
Pow2(k) == IF k <= 0 THEN 1 ELSE 2 * Pow2(k - 1)

ShiftRight(a, k) == a \div Pow2(k)
ShiftLeft(a, k)  == a * Pow2(k)

-----------------------------------------------------------------------------
(* The checks chained onto a lazy value with .then(...).  Each takes the   *)
(* resolved integer and gives the next value or raises through self.err.   *)

ByteTooBigErr    == "Byte is too big"
ByteTooSmallErr  == "Byte is too small"
WordTooBigErr    == "Word is too big"
WordTooSmallErr  == "Word is too small"
UnalignedBranch  == "Unaligned branch"
TooFarBranch     == "Too far branch"
UnalignedSob     == "Unaligned SOB"
TooFarSob        == "Too far SOB"
RedefinitionErr  == "Redefinition of label"
RepeatCountErr   == "Error while evaluating .REPEAT count: count must be known at the time of its usage"

byteTooBig_offByOne(byte) == IF byte > 256 THEN Fail(ByteTooBigErr) ELSE OkInt(byte)
byteTooBig(byte)    == IF byte >= 256 THEN Fail(ByteTooBigErr) ELSE OkInt(byte)
byteTooSmall(byte)  == IF byte < -256 THEN Fail(ByteTooSmallErr) ELSE OkInt(byte)
byteNormalize(byte) == IF byte < 0 THEN OkInt(byte + 256) ELSE OkInt(byte)

wordTooBig(word)    == IF word >= 65536 THEN Fail(WordTooBigErr) ELSE OkInt(word)
wordTooSmall(word)  == IF word < -65536 THEN Fail(WordTooSmallErr) ELSE OkInt(word)
wordNormalize_none(word) == OkInt(word)
wordNormalize(word) == IF word < 0 THEN OkInt(word + 65536) ELSE OkInt(word)

branchAlign(offset) ==
    IF offset % 2 = 1 THEN Fail(UnalignedBranch) ELSE OkInt(offset \div 2)
branchRange_symmetric(offset) ==
    IF offset < -127 \/ offset > 127 THEN Fail(TooFarBranch) ELSE OkInt(offset)
branchRange(offset) ==
    IF offset < -128 \/ offset > 127 THEN Fail(TooFarBranch) ELSE OkInt(offset)

sobAlign(offset) ==
    IF offset % 2 = 1 THEN Fail(UnalignedSob) ELSE OkInt(offset \div 2)
sobRange_signed(offset) ==
    IF offset < -63 \/ offset > 63 THEN Fail(TooFarSob) ELSE OkInt(offset)
sobRange(offset) ==
    IF offset < 0 \/ offset > 63 THEN Fail(TooFarSob) ELSE OkInt(offset)

\* util.int8ToUint8: the two's complement byte of a signed offset.
int8ToUint8(x) == IF x < 0 THEN OkInt(x + 256) ELSE OkInt(x)

ApplyThen(f, v) ==
    CASE f = "byteTooBig"    -> byteTooBig(v)
      [] f = "byteTooSmall"  -> byteTooSmall(v)
      [] f = "byteNormalize" -> byteNormalize(v)
      [] f = "wordTooBig"    -> wordTooBig(v)
      [] f = "wordTooSmall"  -> wordTooSmall(v)
      [] f = "wordNormalize" -> wordNormalize(v)
      [] f = "branchAlign"   -> branchAlign(v)
      [] f = "branchRange"   -> branchRange(v)
      [] f = "int8ToUint8"   -> int8ToUint8(v)
      [] f = "sobAlign"      -> sobAlign(v)
      [] f = "sobRange"      -> sobRange(v)
      [] OTHER               -> Fail(TypeMismatch)

-----------------------------------------------------------------------------
(* Resolution of a lazy value against the symbol table (Deferred.__call__, *)
(* Expression evaluation).  seen holds the symbols being resolved.         *)

IntOp(op, x, y) ==
    CASE op = "+"  -> OkInt(x + y)
      [] op = "-"  -> OkInt(x - y)
      [] op = "*"  -> OkInt(x * y)
      [] op = "%"  -> IF y > 0 THEN OkInt(x % y) ELSE Fail(TypeMismatch)
      [] op = "==" -> OkBool(x = y)
      [] op = "&"  -> IF y >= 0 THEN OkInt(BitAnd(x, y)) ELSE Fail(TypeMismatch)
      [] op = "|"  -> OkInt(BitOr(x, y))
      [] op = ">>" -> OkInt(ShiftRight(x, y))
      [] OTHER     -> Fail(TypeMismatch)

RECURSIVE Times(_, _)
Times(l, n) == IF n <= 0 THEN <<>> ELSE l \o Times(l, n - 1)

RECURSIVE Eval(_, _, _)
Eval(e, lab, seen) ==
    CASE e.op = "lit"  -> OkInt(e.val)
      [] e.op = "bool" -> OkBool(e.val = 1)
      [] e.op = "list" -> OkList([i \in 1..Len(e.args) |-> e.args[i].val])
      [] e.op = "sym"  ->
            IF e.name \notin DOMAIN lab THEN Fail(UndefinedSymbol)
            ELSE IF e.name \in seen THEN Fail(CircularSymbol)
            ELSE LET r == Eval(lab[e.name], lab, seen \cup {e.name})
                 IN  IF r.err # "" THEN r
                     ELSE IF r.kind # "int" THEN Fail(TypeMismatch)
                     ELSE r
      [] e.op = "then" ->
            LET r == Eval(e.args[1], lab, seen)
            IN  IF r.err # "" THEN r
                ELSE IF r.kind # "int" THEN Fail(TypeMismatch)
                ELSE ApplyThen(e.name, r.int)
      [] e.op = "len" ->
            LET r == Eval(e.args[1], lab, seen)
            IN  IF r.err # "" THEN r
                ELSE IF r.kind # "list" THEN Fail(TypeMismatch)
                ELSE OkInt(Len(r.list))
      [] e.op = "repeat" ->
            LET c == Eval(e.args[1], lab, seen)
                x == Eval(e.args[2], lab, seen)
            IN  IF c.err # "" THEN c
                ELSE IF c.kind # "int" THEN Fail(TypeMismatch)
                ELSE IF x.err # "" THEN x
                ELSE IF x.kind = "list" THEN OkList(Times(x.list, c.int))
                ELSE OkList(Times(<<x.int>>, c.int))
      [] e.op = "if" ->
            LET c == Eval(e.args[1], lab, seen)
            IN  IF c.err # "" THEN c
                ELSE IF c.kind # "bool" THEN Fail(TypeMismatch)
                ELSE IF c.int = 1 THEN Eval(e.args[2], lab, seen)
                ELSE Eval(e.args[3], lab, seen)
      [] e.op \in {"+", "-", "*", "%", "==", "&", "|", ">>"} ->
            LET x == Eval(e.args[1], lab, seen)
                y == Eval(e.args[2], lab, seen)
            IN  IF x.err # "" THEN x
                ELSE IF y.err # "" THEN y
                ELSE IF x.kind # "int" \/ y.kind # "int" THEN Fail(TypeMismatch)
                ELSE IntOp(e.op, x.int, y.int)
      [] OTHER -> Fail(TypeMismatch)

\* Deferred(value, tp)(self): the value, which must have type tp.
Resolve(e, tp, lab) ==
    LET r == Eval(e, lab, {})
    IN  IF r.err # "" THEN r
        ELSE IF tp # "any" /\ r.kind # tp THEN Fail(TypeMismatch)
        ELSE r

-----------------------------------------------------------------------------
(* Parsed commands, as the parser hands them to handleCommand:             *)
(* (command, arg), labels.  exprs holds a directive's argument values,     *)
(* ops an instruction's operands, name a directive's name argument, body   *)
(* the nested command list of .REPEAT or the commands of an included file. *)

Cmd(command, labs, exprs, ops, name, body) ==
    [labels |-> labs, name |-> name, command |-> command, exprs |-> exprs,
     ops |-> ops, body |-> body]

\* An operand ((reg, addr), additional) of a one- or two-operand instruction.
TupleOp(reg, addr, extra, isOffset) ==
    [kind |-> "tuple", reg |-> reg, addr |-> addr, isOffset |-> isOffset, expr |-> extra]
\* An operand that is an int or an Expression (a branch target).
ExprOp(e, isOffset) ==
    [kind |-> "expr", reg |-> "", addr |-> "", isOffset |-> isOffset, expr |-> e]
\* An operand that is a register name.
RegOp(reg) ==
    [kind |-> "str", reg |-> reg, addr |-> "", isOffset |-> FALSE, expr |-> NoneE]

\* commands.one_arg_commands and commands.jmp_commands (opcode tables).
one_arg_commands == [CLR |-> 2560, INC |-> 2688]
jmp_commands     == [BR |-> 256, BNE |-> 512]
two_arg_commands == [MOV |-> 4096]
\* The opcode of SOB, 0o077000.
SobOpcode        == 32256

-----------------------------------------------------------------------------
(* The compiler object: the fields of Compiler that compilation changes.   *)

NoLabels == [x \in {} |-> NoneE]

Compiler(link, proj) ==
    [err |-> "", link_address |-> link, labels |-> NoLabels, PC |-> link,
     writes |-> <<>>, build |-> <<>>, project |-> proj, eof |-> FALSE]

Bind(lab, n, v) == [x \in DOMAIN lab \cup {n} |-> IF x = n THEN v ELSE lab[x]]

\* self.err: raises CompilerError, which ends the compilation.
err(st, text) == [st EXCEPT !.err = text]

WriteEntry(addr, value) == [addr |-> addr, value |-> value]

writeByte(st, byte) ==
    LET b == Then("byteNormalize", Then("byteTooSmall", Then("byteTooBig", byte)))
    IN  [st EXCEPT !.writes = Append(@, WriteEntry(st.PC, b)),
                   !.PC = Add(st.PC, Lit(1))]

writeWord_eager(st, word) ==
    LET now == Resolve(word, "int", st.labels)
        w   == Then("wordNormalize", Then("wordTooSmall", Then("wordTooBig",
                   IF now.err = "" THEN Lit(now.int) ELSE Lit(0))))
    IN  [st EXCEPT !.writes = @ \o << WriteEntry(st.PC, Bin("&", w, Lit(255))),
                                      WriteEntry(Add(st.PC, Lit(1)), Bin(">>", w, Lit(8))) >>,
                   !.PC = Add(st.PC, Lit(2))]

writeWord(st, word) ==
    LET w == Then("wordNormalize", Then("wordTooSmall", Then("wordTooBig", word)))
    IN  [st EXCEPT !.writes = @ \o << WriteEntry(st.PC, Bin("&", w, Lit(255))),
                                      WriteEntry(Add(st.PC, Lit(1)), Bin(">>", w, Lit(8))) >>,
                   !.PC = Add(st.PC, Lit(2))]

writeBytes_one(st, bytes_) ==
    [st EXCEPT !.writes = Append(@, WriteEntry(st.PC, bytes_)),
               !.PC = Add(st.PC, Lit(1))]

writeBytes(st, bytes_) ==
    [st EXCEPT !.writes = Append(@, WriteEntry(st.PC, bytes_)),
               !.PC = Bin("+", st.PC, LenOf(bytes_))]

RECURSIVE writeByteList(_, _)
writeByteList(st, xs) ==
    IF xs = <<>> THEN st ELSE writeByteList(writeByte(st, Head(xs)), Tail(xs))

RECURSIVE writeWordList(_, _)
writeWordList(st, xs) ==
    IF xs = <<>> THEN st ELSE writeWordList(writeWord(st, Head(xs)), Tail(xs))

encodeRegister(reg) ==
    CASE reg = "SP" -> 6
      [] reg = "PC" -> 7
      [] reg = "R0" -> 0 [] reg = "R1" -> 1 [] reg = "R2" -> 2 [] reg = "R3" -> 3
      [] reg = "R4" -> 4 [] reg = "R5" -> 5 [] reg = "R6" -> 6 [] reg = "R7" -> 7

encodeAddr(addr) ==
    CASE addr = "Rn" -> 0 [] addr = "(Rn)" -> 1 [] addr = "(Rn)+" -> 2
      [] addr = "@(Rn)+" -> 3 [] addr = "-(Rn)" -> 4 [] addr = "@-(Rn)" -> 5
      [] addr = "N(Rn)" -> 6 [] addr = "@N(Rn)" -> 7

encodeArg(arg) == BitOr(ShiftLeft(encodeAddr(arg.addr), 3), encodeRegister(arg.reg))

RECURSIVE defineLabels_origin(_, _)
defineLabels_origin(st, labs) ==
    IF labs = <<>> THEN st
    ELSE IF Head(labs) \in DOMAIN st.labels THEN err(st, RedefinitionErr)
    ELSE defineLabels_origin([st EXCEPT !.labels = Bind(@, Head(labs), st.link_address)],
                             Tail(labs))

RECURSIVE defineLabels_unchecked(_, _)
defineLabels_unchecked(st, labs) ==
    IF labs = <<>> THEN st
    ELSE defineLabels_unchecked([st EXCEPT !.labels = Bind(@, Head(labs), st.PC)],
                                Tail(labs))

\* The labels of a command, bound to the PC held before the command runs.
RECURSIVE defineLabels(_, _)
defineLabels(st, labs) ==
    IF labs = <<>> THEN st
    ELSE IF Head(labs) \in DOMAIN st.labels THEN err(st, RedefinitionErr)
    ELSE defineLabels([st EXCEPT !.labels = Bind(@, Head(labs), st.PC)], Tail(labs))

\* The offset of a relative branch to target, encoded as an unsigned byte.
branchOffset(st, target) ==
    Then("int8ToUint8",
         Then("branchRange",
              Then("branchAlign", Sub(Sub(target, st.PC), Lit(2)))))

\* The offset of SOB back to target, counted in words.
sobOffset(st, target) ==
    Then("sobRange", Then("sobAlign", Sub(Add(st.PC, Lit(2)), target)))

\* Extra operand words with offsets taken from a fixed address.
RECURSIVE additionalWordsFrom(_, _, _)
additionalWordsFrom(st, ops, base) ==
    IF ops = <<>> THEN st
    ELSE LET arg1 == Head(ops)
             additional == IF arg1.kind \in {"tuple", "expr"} THEN arg1.expr ELSE NoneE
             value == IF arg1.isOffset
                      THEN Sub(Sub(additional, base), Lit(2))
                      ELSE additional
         IN  IF additional = NoneE THEN additionalWordsFrom(st, Tail(ops), base)
             ELSE additionalWordsFrom(writeWord(st, value), Tail(ops), base)

additionalWords_fromStart(st, ops) == additionalWordsFrom(st, ops, Sub(st.PC, Lit(2)))

\* The extra operand words written after an instruction's first word.
RECURSIVE additionalWords(_, _)
additionalWords(st, ops) ==
    IF ops = <<>> THEN st
    ELSE LET arg1 == Head(ops)
             additional == IF arg1.kind \in {"tuple", "expr"} THEN arg1.expr ELSE NoneE
             value == IF arg1.isOffset
                      THEN Sub(Sub(additional, st.PC), Lit(2))
                      ELSE additional
         IN  IF additional = NoneE THEN additionalWords(st, Tail(ops))
             ELSE additionalWords(writeWord(st, value), Tail(ops))

blkbFill(n) == Repeat(n, Lit(0))
blkwFill_bytes(n) == Repeat(n, Lit(0))
blkwFill(n) == Repeat(Mul(n, Lit(2)), Lit(0))

evenFill(st)     == If(Eq(Mod(st.PC, Lit(2)), Lit(0)), ListLit(<<>>), ListLit(<<0>>))
alignFill_remainder(st, n) == If(Eq(Mod(st.PC, n), Lit(0)), ListLit(<<>>),
                                 Repeat(Mod(st.PC, n), Lit(0)))
alignFill(st, n) == If(Eq(Mod(st.PC, n), Lit(0)), ListLit(<<>>),
                       Repeat(Sub(n, Mod(st.PC, n)), Lit(0)))

simpleCommand(st, c) ==
    IF c.command \in DOMAIN one_arg_commands
    THEN additionalWords(
             writeWord(st, Lit(BitOr(one_arg_commands[c.command], encodeArg(c.ops[1])))),
             c.ops)
    ELSE IF c.command \in DOMAIN jmp_commands
    THEN additionalWords(
             writeWord(st, Bin("|", Lit(jmp_commands[c.command]),
                                    branchOffset(st, c.ops[1].expr))),
             c.ops)
    ELSE IF c.command \in DOMAIN two_arg_commands
    THEN additionalWords(
             writeWord(st, Lit(BitOr(BitOr(two_arg_commands[c.command],
                                           ShiftLeft(encodeArg(c.ops[1]), 6)),
                                     encodeArg(c.ops[2])))),
             c.ops)
    ELSE IF c.command = "SOB"
    THEN additionalWords(
             writeWord(st, Bin("|", Lit(BitOr(SobOpcode,
                                              ShiftLeft(encodeRegister(c.ops[1].reg), 6))),
                                    sobOffset(st, c.ops[2].expr))),
             c.ops)
    ELSE err(st, "Unknown command")

\* .LINK: the link address follows only when no project is active.
setOrigin_always(st, arg) == [st EXCEPT !.PC = arg, !.link_address = arg]
setOrigin(st, arg) ==
    [st EXCEPT !.PC = arg,
               !.link_address = IF st.project THEN @ ELSE arg]

RECURSIVE handleCommand(_, _)
RECURSIVE compileFile(_, _)
RECURSIVE repeatBody(_, _)
RECURSIVE repeatLoop(_, _, _)

\* Compiler.include -> addFile -> compileFile: the commands of the included
\* file run on the same compiler; .END ends the included file only.
include(st, c) == compileFile(st, c.body)

repeatCommand_skip(st, c) ==
    LET count == Resolve(c.exprs[1], "int", st.labels)
    IN  IF count.err # "" THEN st ELSE repeatLoop(st, c.body, count.int)

repeatCommand(st, c) ==
    LET count == Resolve(c.exprs[1], "int", st.labels)
    IN  IF count.err # ""
        THEN err(st, IF IsEvaluateError(count.err) THEN RepeatCountErr ELSE count.err)
        ELSE repeatLoop(st, c.body, count.int)

handleCommand(st0, c) ==
    LET st == defineLabels(st0, c.labels)
    IN  IF st.err # "" THEN st
        ELSE CASE c.command = "" -> st
          [] c.command = ".LINK" -> setOrigin(st, c.exprs[1])
          [] c.command = ".INCLUDE" -> include(st, c)
          [] c.command \in {".PDP11", ".SYNTAX", ".CONVERT1251TOKOI8R", ".DECIMALNUMBERS"} -> st
          [] c.command = ".I8080" -> err(st, "PDPY11 cannot compile 8080 programs")
          [] c.command = ".BYTE" -> writeByteList(st, c.exprs)
          [] c.command = ".WORD" -> writeWordList(st, c.exprs)
          [] c.command = ".END"  -> [st EXCEPT !.eof = TRUE]
          [] c.command = ".BLKB" -> writeBytes(st, blkbFill(c.exprs[1]))
          [] c.command = ".BLKW" -> writeBytes(st, blkwFill(c.exprs[1]))
          [] c.command = ".EVEN" -> writeBytes(st, evenFill(st))
          [] c.command = ".ALIGN" -> writeBytes(st, alignFill(st, c.exprs[1]))
          [] c.command = ".MAKE_RAW" -> [st EXCEPT !.build = Append(@, <<"raw", c.name>>)]
          [] c.command = ".MAKE_BIN" -> [st EXCEPT !.build = Append(@, <<"bin", c.name>>)]
          [] c.command = ".EQU" ->
                IF c.name \in DOMAIN st.labels THEN err(st, RedefinitionErr)
                ELSE [st EXCEPT !.labels = Bind(@, c.name, c.exprs[1])]
          [] c.command = ".REPEAT" -> repeatCommand(st, c)
          [] OTHER -> simpleCommand(st, c)

RECURSIVE compileFile_ignoreEnd(_, _)
compileFile_ignoreEnd(st, cmds) ==
    IF cmds = <<>> THEN st
    ELSE LET r == handleCommand(st, Head(cmds))
         IN  IF r.err # "" THEN r
             ELSE compileFile_ignoreEnd([r EXCEPT !.eof = FALSE], Tail(cmds))

compileFile(st, cmds) ==
    IF cmds = <<>> THEN st
    ELSE LET r == handleCommand(st, Head(cmds))
         IN  IF r.err # "" THEN r
             ELSE IF r.eof THEN [r EXCEPT !.eof = FALSE]
             ELSE compileFile(r, Tail(cmds))

\* One replay of the body of .REPEAT: EOFError breaks the loop over the body.
repeatBody(st, cmds) ==
    IF cmds = <<>> THEN st
    ELSE LET r == handleCommand(st, Head(cmds))
         IN  IF r.err # "" THEN r
             ELSE IF r.eof THEN [r EXCEPT !.eof = FALSE]
             ELSE repeatBody(r, Tail(cmds))

repeatLoop(st, body, n) ==
    IF n <= 0 THEN st
    ELSE LET r == repeatBody(st, body)
         IN  IF r.err # "" THEN r ELSE repeatLoop(r, body, n - 1)

-----------------------------------------------------------------------------
(* Compiler.link.                                                          *)

Zeros(n) == [k \in 1..n |-> 0]

storeAt_keep(arr, addr, value1) ==
    IF arr.err # "" THEN arr
    ELSE IF addr >= 0 /\ addr < Len(arr.mem) THEN arr
    ELSE [arr EXCEPT !.mem = @ \o Zeros(addr - Len(arr.mem)) \o <<value1>>]

\* array[addr] = value1, after growing the array to hold addr.  A negative
\* index counts from the end of the Python list, or is an IndexError.
storeAt(arr, addr, value1) ==
    LET grown == IF addr >= Len(arr.mem)
                 THEN arr.mem \o Zeros(addr - Len(arr.mem) + 1) ELSE arr.mem
    IN  IF arr.err # "" THEN arr
        ELSE IF addr >= 0 THEN [arr EXCEPT !.mem = [grown EXCEPT ![addr + 1] = value1]]
        ELSE IF -addr <= Len(arr.mem)
             THEN [arr EXCEPT !.mem = [@ EXCEPT ![Len(arr.mem) + addr + 1] = value1]]
        ELSE [arr EXCEPT !.err = "IndexError"]

RECURSIVE storeList(_, _, _, _)
storeList(arr, addr, value, i) ==
    IF i > Len(value) THEN arr
    ELSE storeList(storeAt(arr, addr + (i - 1), value[i]), addr, value, i + 1)

\* One entry of the write log: the payload is resolved first, then the address.
applyWrite(arr, w, lab) ==
    LET value == Resolve(w.value, "any", lab)
        addr  == Resolve(w.addr, "int", lab)
    IN  IF arr.err # "" THEN arr
        ELSE IF value.err # "" THEN [arr EXCEPT !.err = value.err]
        ELSE IF addr.err # "" THEN [arr EXCEPT !.err = addr.err]
        ELSE storeList(arr, addr.int,
                       IF value.kind = "list" THEN value.list ELSE <<value.int>>, 1)

RECURSIVE applyWrites(_, _, _, _)
applyWrites(arr, ws, i, lab) ==
    IF i > Len(ws) \/ arr.err # "" THEN arr
    ELSE applyWrites(applyWrite(arr, ws[i], lab), ws, i + 1, lab)

sliceFrom_whole(arr, a) == arr

\* array[link_address:]
sliceFrom(arr, a) ==
    IF a >= 0 THEN SubSeq(arr, a + 1, Len(arr))
    ELSE IF -a >= Len(arr) THEN arr
    ELSE SubSeq(arr, Len(arr) + a + 1, Len(arr))

\* The errors of the pass over the symbol table (lines 58-59); the pass
\* stops at the first label that fails, in the dictionary's order.
labelErrors(st) ==
    {Resolve(st.labels[n], "int", st.labels).err : n \in DOMAIN st.labels} \ {""}

\* link() after a symbol table pass without error.
link(st) ==
    LET arr == applyWrites([err |-> "", mem |-> <<>>], st.writes, 1, st.labels)
        la  == Resolve(st.link_address, "int", st.labels)
    IN  IF arr.err # "" THEN [err |-> arr.err, array |-> arr.mem, output |-> <<>>, link_address |-> st.link_address]
        ELSE IF la.err # "" THEN [err |-> la.err, array |-> arr.mem, output |-> <<>>, link_address |-> st.link_address]
        ELSE [err |-> "", array |-> arr.mem, output |-> sliceFrom(arr.mem, la.int),
              link_address |-> Lit(la.int)]

-----------------------------------------------------------------------------
(* The state machine: commands are read one at a time from the top-level   *)
(* command stream (compileFile's loop), then link() is called.             *)

Self ==
    [err |-> "", link_address |-> link_address, labels |-> labels, PC |-> PC,
     writes |-> writes, build |-> build, project |-> project, eof |-> FALSE]

\* Constructor arguments.
InitLinks == {4}

Init ==
    /\ project \in BOOLEAN
    /\ \E l \in InitLinks :
          /\ PC = Lit(l)
          /\ link_address = Lit(l)
    /\ labels = NoLabels
    /\ writes = <<>>
    /\ build = <<>>
    /\ array = <<>>
    /\ output = <<>>
    /\ phase = "compile"
    /\ error = ""
    /\ history = <<>>
    /\ active = <<>>

\* One iteration of compileFile's loop on the top-level file.
Step(c) ==
    /\ phase = "compile"
    /\ Len(history) < MaxCmds
    /\ LET r == handleCommand(Self, c)
       IN  /\ labels' = r.labels
           /\ PC' = r.PC
           /\ link_address' = r.link_address
           /\ writes' = r.writes
           /\ build' = r.build
           /\ error' = r.err
           /\ phase' = IF r.err # "" THEN "failed"
                       ELSE IF r.eof THEN "ended" ELSE "compile"
           /\ history' = Append(history,
                  [cmd |-> c, pc0 |-> PC, pc1 |-> r.PC,
                   w0 |-> Len(writes), w1 |-> Len(r.writes)])
    /\ UNCHANGED <<project, array, output, active>>

Link ==
    /\ phase \in {"compile", "ended"}
    /\ active = <<>>
    /\ IF labelErrors(Self) # {}
       THEN /\ error' \in labelErrors(Self)
            /\ phase' = "linkfailed"
            /\ UNCHANGED <<link_address, array, output>>
       ELSE LET r == link(Self)
            IN  /\ error' = r.err
                /\ phase' = IF r.err # "" THEN "linkfailed" ELSE "linked"
                /\ link_address' = r.link_address
                /\ array' = IF r.err # "" THEN array ELSE r.array
                /\ output' = r.output
    /\ UNCHANGED <<labels, PC, writes, build, project, history, active>>

-----------------------------------------------------------------------------
(* Helpers of the properties: the write log and the history resolved       *)
(* against the current symbol table.                                       *)

NoArgs == <<>>
Directive(command, labs, exprs) == Cmd(command, labs, exprs, NoArgs, "", <<>>)
Equ(name, value)                == Cmd(".EQU", <<>>, <<value>>, NoArgs, name, <<>>)

IntOf(e) == Resolve(e, "int", labels)

\* The bytes entry j of the write log stores, and where.
EntryValue(j) == Resolve(writes[j].value, "any", labels)
EntryAddr(j)  == Resolve(writes[j].addr, "int", labels)
EntryBytes(j) == IF EntryValue(j).kind = "list" THEN EntryValue(j).list
                 ELSE <<EntryValue(j).int>>
EntryOk(j)    == EntryValue(j).err = "" /\ EntryAddr(j).err = "" /\ EntryAddr(j).int >= 0
Covers(j, a)  == /\ EntryOk(j)
                 /\ EntryAddr(j).int <= a
                 /\ a < EntryAddr(j).int + Len(EntryBytes(j))
\* No entry after j writes address a.
LastAt(j, a)  == \A m \in (j + 1)..Len(writes) : ~Covers(m, a)
\* Entry j is the first one link() can fail on.
FirstToFail(j) == labelErrors(Self) = {} /\ \A m \in 1..(j - 1) : EntryOk(m)

\* The command of history entry h ran to its end.
Completed(h, n) == h.w1 = h.w0 + n

-----------------------------------------------------------------------------
(* Specification SpecData: .BYTE, .WORD, .LINK, .EQU and labels.           *)

ByteVals == {-257, -256, -1, 255, 256}
WordVals == {-65537, -65536, -2, 65535, 65536}
DataLinks == {1}
DataEquVals == {-1, 256}

DataByte  == \E n \in ByteVals : Step(Directive(".BYTE", <<>>, <<Lit(n)>>))
DataByteSym == Step(Directive(".BYTE", <<>>, <<Lit(7), Sym("A")>>))
DataWord  == \E n \in WordVals : Step(Directive(".WORD", <<>>, <<Lit(n)>>))
DataWordSym == Step(Directive(".WORD", <<>>, <<Sym("A"), Lit(513)>>))
DataLink  == \E v \in DataLinks : Step(Directive(".LINK", <<>>, <<Lit(v)>>))
DataEqu   == \E v \in DataEquVals : Step(Equ("A", Lit(v)))
DataLabel == Step(Directive("", <<"A">>, <<>>))

NextData ==
    \/ DataByte
    \/ DataByteSym
    \/ DataWord
    \/ DataWordSym
    \/ DataLink
    \/ DataEqu
    \/ DataLabel
    \/ Link

SpecData == Init /\ [][NextData]_vars

\* C5: every .BYTE element n emitted at address A is stored as n (0..255) or
\* as n+256 (-256..-1), or makes link() fail with the byte range error
\* (n >= 256 too big, n < -256 too small); PC advances by 1 per element.
ByteElementOk(h, k) ==
    LET n == IntOf(h.cmd.exprs[k])
        a == IntOf(h.pc0)
        j == h.w0 + k
        v == EntryValue(j)
    IN  (n.err = "" /\ a.err = "") =>
          /\ EntryAddr(j) = OkInt(a.int + k - 1)
          /\ (n.int \in 0..255 => v = OkInt(n.int))
          /\ (n.int \in -256..-1 => v = OkInt(n.int + 256))
          /\ (n.int >= 256 => v.err = ByteTooBigErr)
          /\ (n.int < -256 => v.err = ByteTooSmallErr)
          /\ (n.int \notin -256..255 =>
                /\ phase # "linked"
                /\ (phase = "linkfailed" /\ FirstToFail(j) => error = v.err))
          /\ (phase = "linked" /\ LastAt(j, a.int + k - 1) =>
                array[a.int + k] = IF n.int < 0 THEN n.int + 256 ELSE n.int)

C5_ByteEmission ==
    \A i \in 1..Len(history) :
        LET h == history[i]
        IN  (h.cmd.command = ".BYTE" /\ Completed(h, Len(h.cmd.exprs))) =>
              /\ \A k \in 1..Len(h.cmd.exprs) : ByteElementOk(h, k)
              /\ IntOf(h.pc0).err = "" =>
                    IntOf(h.pc1) = OkInt(IntOf(h.pc0).int + Len(h.cmd.exprs))

C5_Witness ==
    /\ phase = "linked"
    /\ \E i \in 1..Len(history) :
          /\ history[i].cmd = Directive(".BYTE", <<>>, <<Lit(-256)>>)
          /\ LastAt(history[i].w0 + 1, IntOf(history[i].pc0).int)
          /\ array[IntOf(history[i].pc0).int + 1] = 0
          /\ IntOf(history[i].pc0).int = 1

\* C6: every .WORD element n emitted at address A is stored as the low and
\* high byte of n (0..65535) or of n+65536 (-65536..-1), or makes link() fail
\* with the word range error; PC advances by 2 per element and both stored
\* bytes lie in 0..255.
WordElementOk(h, k) ==
    LET n  == IntOf(h.cmd.exprs[k])
        a  == IntOf(h.pc0)
        j  == h.w0 + 2 * (k - 1) + 1
        lo == EntryValue(j)
        hi == EntryValue(j + 1)
        A  == a.int + 2 * (k - 1)
        u  == IF n.int < 0 THEN n.int + 65536 ELSE n.int
    IN  (n.err = "" /\ a.err = "") =>
          /\ EntryAddr(j) = OkInt(A)
          /\ EntryAddr(j + 1) = OkInt(A + 1)
          /\ (n.int \in -65536..65535 =>
                /\ lo = OkInt(u % 256)
                /\ hi = OkInt(u \div 256)
                /\ lo.int \in 0..255
                /\ hi.int \in 0..255)
          /\ (n.int >= 65536 => lo.err = WordTooBigErr /\ hi.err = WordTooBigErr)
          /\ (n.int < -65536 => lo.err = WordTooSmallErr /\ hi.err = WordTooSmallErr)
          /\ (n.int \notin -65536..65535 =>
                /\ phase # "linked"
                /\ (phase = "linkfailed" /\ FirstToFail(j) => error = lo.err))
          /\ (phase = "linked" /\ LastAt(j, A) => array[A + 1] = u % 256)
          /\ (phase = "linked" /\ LastAt(j + 1, A + 1) => array[A + 2] = u \div 256)

C6_WordEmission ==
    \A i \in 1..Len(history) :
        LET h == history[i]
        IN  (h.cmd.command = ".WORD" /\ Completed(h, 2 * Len(h.cmd.exprs))) =>
              /\ \A k \in 1..Len(h.cmd.exprs) : WordElementOk(h, k)
              /\ IntOf(h.pc0).err = "" =>
                    IntOf(h.pc1) = OkInt(IntOf(h.pc0).int + 2 * Len(h.cmd.exprs))

C6_Witness ==
    /\ phase = "linked"
    /\ \E i \in 1..Len(history) :
          /\ history[i].cmd = Directive(".WORD", <<>>, <<Lit(-2)>>)
          /\ IntOf(history[i].pc0).int = 4
          /\ LastAt(history[i].w0 + 1, 4)
          /\ LastAt(history[i].w0 + 2, 5)
          /\ array[5] = 254
          /\ array[6] = 255

-----------------------------------------------------------------------------
(* Specification SpecFill: .ALIGN, .EVEN, .BLKB, .BLKW with .BYTE, .LINK,   *)
(* .EQU and labels around them.                                            *)

AlignVals == {2, 4}
BlkCounts == {Lit(1), Sym("N")}
FillLinks == {1, 514}
FillEquVals == {0, 3}
FillLabels == {<<>>, <<"L">>}

FillAlign == \E n \in AlignVals : Step(Directive(".ALIGN", <<>>, <<Lit(n)>>))
FillEven  == Step(Directive(".EVEN", <<>>, <<>>))
FillBlkb  == \E n \in BlkCounts : Step(Directive(".BLKB", <<>>, <<n>>))
FillBlkw  == \E n \in BlkCounts : Step(Directive(".BLKW", <<>>, <<n>>))
FillByte  == \E l \in FillLabels : Step(Directive(".BYTE", l, <<Lit(255)>>))
FillLink  == \E v \in FillLinks : Step(Directive(".LINK", <<>>, <<Lit(v)>>))
FillEqu   == \E v \in FillEquVals : Step(Equ("N", Lit(v)))

NextFill ==
    \/ FillAlign
    \/ FillEven
    \/ FillBlkb
    \/ FillBlkw
    \/ FillByte
    \/ FillLink
    \/ FillEqu
    \/ Link

SpecFill == Init /\ [][NextFill]_vars

\* The zero-fill entry of history entry h holds exactly n zero bytes at the PC
\* held before the command, PC is advanced by n, and the linked image holds
\* these zeros where no later entry overwrites them.
ZeroFill(h, n) ==
    LET p == IntOf(h.pc0).int
        j == h.w0 + 1
    IN  /\ EntryAddr(j) = OkInt(p)
        /\ EntryValue(j) = OkList(Zeros(n))
        /\ IntOf(h.pc1) = OkInt(p + n)
        /\ phase = "linked" =>
              \A a \in p..(p + n - 1) : LastAt(j, a) => array[a + 1] = 0

\* The smallest multiple of n that is >= p.
NextMultiple(p, n) == CHOOSE m \in p..(p + n - 1) : m % n = 0

\* C8: .ALIGN n at PC = p emits exactly (n - p mod n) mod n zero bytes at p
\* and leaves PC at the smallest multiple of n >= p; nothing is emitted when p
\* is a multiple of n; .EVEN behaves as .ALIGN 2.
AlignOk(h, n) ==
    LET p == IntOf(h.pc0)
    IN  (p.err = "" /\ p.int >= 0) =>
          /\ ZeroFill(h, (n - (p.int % n)) % n)
          /\ IntOf(h.pc1) = OkInt(NextMultiple(p.int, n))
          /\ (p.int % n = 0 => EntryValue(h.w0 + 1) = OkList(<<>>) /\ IntOf(h.pc1) = p)

C8_Align ==
    \A i \in 1..Len(history) :
        LET h == history[i]
        IN  /\ (h.cmd.command = ".ALIGN" /\ Completed(h, 1)) => AlignOk(h, h.cmd.exprs[1].val)
            /\ (h.cmd.command = ".EVEN" /\ Completed(h, 1)) => AlignOk(h, 2)

\* .ALIGN 4 at 0o1002 = 514 emitted two zero bytes and left PC = 0o1004 = 516.
C8_Witness ==
    /\ phase = "linked"
    /\ \E i \in 1..Len(history) :
          /\ history[i].cmd = Directive(".ALIGN", <<>>, <<Lit(4)>>)
          /\ history[i].pc0 = Lit(514)
          /\ EntryValue(history[i].w0 + 1) = OkList(<<0, 0>>)
          /\ IntOf(history[i].pc1) = OkInt(516)
          /\ Len(array) = 516

\* C9: .BLKW n appends a zero-fill of 2n bytes at PC and advances PC by 2n,
\* .BLKB n one of n bytes, also when n is a constant defined later in the unit.
C9_BlockReserve ==
    \A i \in 1..Len(history) :
        LET h == history[i]
            n == IntOf(h.cmd.exprs[1])
        IN  (h.cmd.command \in {".BLKB", ".BLKW"} /\ Completed(h, 1)
               /\ n.err = "" /\ n.int >= 0 /\ IntOf(h.pc0).err = "") =>
              ZeroFill(h, IF h.cmd.command = ".BLKW" THEN 2 * n.int ELSE n.int)

\* .BLKW N ran before .EQU N, 3 and reserved six bytes.
C9_Witness ==
    /\ phase = "linked"
    /\ \E i, k \in 1..Len(history) :
          /\ i < k
          /\ history[i].cmd = Directive(".BLKW", <<>>, <<Sym("N")>>)
          /\ history[k].cmd = Equ("N", Lit(3))
          /\ history[i].pc0 = Lit(4)
          /\ IntOf(history[i].pc1) = OkInt(10)
          /\ array = <<0, 0, 0, 0, 0, 0, 0, 0, 0, 0>>

-----------------------------------------------------------------------------
\* C10: the output image is the memory image from the resolved link address
\* through the highest address written: output[i] is the byte of the last
\* write-log entry covering link+i, or 0 when none covers it; bytes below the
\* link address are left out, and the output is empty when nothing was written
\* at or above the link address.
Max(S) == CHOOSE x \in S : \A y \in S : y <= x

\* One more than the highest address written by the log, 0 for none.
WrittenEnd ==
    Max({0} \cup {EntryAddr(j).int + Len(EntryBytes(j)) :
                    j \in {m \in 1..Len(writes) : EntryBytes(m) # <<>>}})

\* The byte the log leaves at address a.
ByteAt(a) ==
    LET js == {j \in 1..Len(writes) : Covers(j, a)}
    IN  IF js = {} THEN 0
        ELSE EntryBytes(Max(js))[a - EntryAddr(Max(js)).int + 1]

C10_OutputImage ==
    phase = "linked" =>
        LET la == link_address.val
        IN  /\ link_address = Lit(la)
            /\ Len(output) = IF WrittenEnd > la THEN WrittenEnd - la ELSE 0
            /\ \A i \in 1..Len(output) : output[i] = ByteAt(la + i - 1)

\* A byte was written below the link address, the output starts above it.
C10_Witness ==
    /\ phase = "linked"
    /\ project
    /\ link_address = Lit(4)
    /\ \E j \in 1..Len(writes) : Covers(j, 1)
    /\ Len(output) = 2
    /\ output[1] = 255

-----------------------------------------------------------------------------
(* Specification SpecBranch: relative branches around the range boundary.  *)

Branch(command, labs, target, isOffset) ==
    Cmd(command, labs, <<>>, <<ExprOp(target, isOffset)>>, "", <<>>)

BranchLinks   == {260, 300}
BranchTargets == {Lit(44), Lit(46), Lit(47), Lit(48), Lit(302), Lit(303),
                  Lit(556), Lit(557), Lit(558), Sym("L")}

BranchLink  == \E v \in BranchLinks : Step(Directive(".LINK", <<>>, <<Lit(v)>>))
BranchBr    == \E t \in BranchTargets : Step(Branch("BR", <<>>, t, FALSE))
BranchBne   == Step(Branch("BNE", <<>>, Sym("L"), TRUE))
BranchLabel == Step(Directive("", <<"L">>, <<>>))

NextBranch ==
    \/ BranchLink
    \/ BranchBr
    \/ BranchBne
    \/ BranchLabel
    \/ Link

SpecBranch == Init /\ [][NextBranch]_vars

IsBranch(h) == h.cmd.command \in DOMAIN jmp_commands /\ h.w1 >= h.w0 + 2

\* d = T - (P + 2) of the branch of history entry h, when P and T are known.
Distance(h) == IntOf(h.cmd.ops[1].expr).int - (IntOf(h.pc0).int + 2)
Known(h)    == IntOf(h.cmd.ops[1].expr).err = "" /\ IntOf(h.pc0).err = ""

\* The branch word of h resolves: its low byte is the offset field, its high
\* byte the opcode's.
Encodes(h, field) ==
    /\ EntryValue(h.w0 + 1) = OkInt(field)
    /\ EntryValue(h.w0 + 2) = OkInt(jmp_commands[h.cmd.command] \div 256)
    /\ EntryAddr(h.w0 + 1) = OkInt(IntOf(h.pc0).int)

\* The branch word of h fails to resolve with msg, and link() with it.
Rejects(h, msg) ==
    /\ EntryValue(h.w0 + 1).err = msg
    /\ phase # "linked"
    /\ (phase = "linkfailed" /\ FirstToFail(h.w0 + 1) => error = msg)

\* C4 as stated: d = +254 and d = -254 encode (word offset +127, -127); one
\* byte further than that boundary fails with "too far branch"; an odd d fails
\* with "unaligned branch".
C4_AsStated ==
    \A i \in 1..Len(history) :
        LET h == history[i]
            d == Distance(h)
        IN  (IsBranch(h) /\ Known(h)) =>
              /\ (d = 254 => Encodes(h, 127))
              /\ (d = -254 => Encodes(h, 129))
              /\ (d \in {255, -255} => Rejects(h, TooFarBranch))
              /\ (d % 2 = 1 => Rejects(h, UnalignedBranch))

\* C4 (amended): d = +254 and d = -254 encode; a target one byte further
\* (d = 255 or -255) is at an odd distance and fails with "unaligned branch",
\* as every odd d does; "too far branch" is the failure of an even d with d/2
\* outside -128..127, that is d >= 256 or d <= -258; every even d in
\* -256..254 encodes with offset field uint8(d/2).
C4_BranchRange ==
    \A i \in 1..Len(history) :
        LET h == history[i]
            d == Distance(h)
        IN  (IsBranch(h) /\ Known(h)) =>
              /\ (d = 254 => Encodes(h, 127))
              /\ (d = -254 => Encodes(h, 129))
              /\ (d % 2 = 0 /\ d \in -256..254 =>
                    Encodes(h, IF d < 0 THEN (d \div 2) + 256 ELSE d \div 2))
              /\ (d % 2 = 1 => Rejects(h, UnalignedBranch))
              /\ (d % 2 = 0 /\ (d >= 256 \/ d <= -258) => Rejects(h, TooFarBranch))

\* A linked unit with a branch at the boundary d = -254.
C4_Witness ==
    /\ phase = "linked"
    /\ \E i \in 1..Len(history) :
          /\ IsBranch(history[i]) /\ Known(history[i])
          /\ Distance(history[i]) = -254
          /\ array[IntOf(history[i].pc0).int + 1] = 129
          /\ array[IntOf(history[i].pc0).int + 2] = 1

-----------------------------------------------------------------------------
(* Specification SpecE2E: .LINK 1000, CLR and BR with the labels START, L. *)

OneArg(command, labs, reg, addr) ==
    Cmd(command, labs, <<>>, <<TupleOp(reg, addr, NoneE, FALSE)>>, "", <<>>)

E2ELink == Step(Directive(".LINK", <<>>, <<Lit(1000)>>))
E2EClr  == \E l \in {<<>>, <<"START">>}, r \in {"R0", "R1"} :
               Step(OneArg("CLR", l, r, "Rn"))
E2EBr   == \E l \in {<<>>, <<"L">>}, t \in {"L", "START"}, o \in BOOLEAN :
               Step(Branch("BR", l, Sym(t), o))

NextE2E ==
    \/ E2ELink
    \/ E2EClr
    \/ E2EBr
    \/ Link

SpecE2E == Init /\ [][NextE2E]_vars

Commands == [i \in 1..Len(history) |-> history[i].cmd]

\* .LINK 1000 / START: CLR R0 / L: BR L
IsE2EProgram ==
    /\ Len(history) = 3
    /\ Commands[1] = Directive(".LINK", <<>>, <<Lit(1000)>>)
    /\ Commands[2] = OneArg("CLR", <<"START">>, "R0", "Rn")
    /\ \E o \in BOOLEAN : Commands[3] = Branch("BR", <<"L">>, Sym("L"), o)

\* C2: the unit links to an image of exactly two words at address 1000, the
\* CLR R0 opcode word and the BR opcode with offset field 0; START resolves to
\* 1000 and L to 1002.
C2_EndToEnd ==
    IsE2EProgram =>
        /\ phase # "failed"
        /\ phase # "linkfailed"
        /\ IntOf(Sym("START")) = OkInt(1000)
        /\ IntOf(Sym("L")) = OkInt(1002)
        /\ phase = "linked" =>
              /\ Len(array) = 1004
              /\ SubSeq(array, 1001, 1004) =
                    <<one_arg_commands["CLR"] % 256, one_arg_commands["CLR"] \div 256,
                      0, jmp_commands["BR"] \div 256>>
              /\ (~project => output = SubSeq(array, 1001, 1004))

\* What handleCommand and link() produce for the unit: three words, the branch
\* word with offset field 0o377 (word offset -1) and an operand word after it.
C2_CodeImage ==
    (IsE2EProgram /\ phase = "linked") =>
        /\ Len(array) = 1006
        /\ SubSeq(array, 1001, 1004) = <<0, 10, 255, 1>>
        /\ SubSeq(array, 1005, 1006) \in {<<234, 3>>, <<252, 255>>}

-----------------------------------------------------------------------------
(* Specification SpecDef: names defined by labels, by .EQU, by the commands *)
(* of included files and by the replays of .REPEAT.                        *)

Include(labs, body) == Cmd(".INCLUDE", labs, <<>>, NoArgs, "", body)
RepeatCmd(labs, count, body) == Cmd(".REPEAT", labs, <<count>>, NoArgs, "", body)

DefLabels    == {<<>>, <<"A">>, <<"A", "A">>}
DefEquVals   == {1, 2}
DefCountVals == {1, 2}
DefCounts    == {Lit(2), Sym("N")}
DefRepeatLabels == {<<>>, <<"N">>, <<"A">>}
DefBodies    == {<<Directive(".BYTE", <<>>, <<Lit(1)>>)>>,
                 <<Directive(".BYTE", <<"A">>, <<Lit(1)>>)>>,
                 <<Equ("A", Lit(1))>>}

DefByte    == \E l \in DefLabels : Step(Directive(".BYTE", l, <<Lit(1)>>))
DefEqu     == \E v \in DefEquVals : Step(Equ("A", Lit(v)))
DefCount   == \E v \in DefCountVals : Step(Equ("N", Lit(v)))
DefRepeat  == \E l \in DefRepeatLabels, n \in DefCounts, b \in DefBodies :
                  Step(RepeatCmd(l, n, b))
DefInclude == \E b \in DefBodies : Step(Include(<<>>, b))

NextDef ==
    \/ DefByte
    \/ DefEqu
    \/ DefCount
    \/ DefRepeat
    \/ DefInclude
    \/ Link

SpecDef == Init /\ [][NextDef]_vars

\* The command the step appended to the history.
Stepped == Len(history') = Len(history) + 1
LastCmd == history[Len(history)].cmd

\* The names a list of commands defines, in the order of the definitions.
RECURSIVE DefinedNames(_)
DefinedNames(cmds) ==
    IF cmds = <<>> THEN <<>>
    ELSE Head(cmds).labels
         \o (IF Head(cmds).command = ".EQU" THEN <<Head(cmds).name>> ELSE <<>>)
         \o DefinedNames(Tail(cmds))

Range(s) == {s[i] : i \in 1..Len(s)}

\* The names command c defines when it runs with symbol table lab at pc: its
\* labels, then the names of its body (every replay of a .REPEAT whose count
\* is known once the labels of the command are bound).
Attempts(c, lab, pc) ==
    LET lab1  == [x \in DOMAIN lab \cup Range(c.labels) |->
                     IF x \in DOMAIN lab THEN lab[x] ELSE pc]
    IN  c.labels \o
        (CASE c.command = ".EQU"     -> <<c.name>>
           [] c.command = ".INCLUDE" -> DefinedNames(c.body)
           [] c.command = ".REPEAT"  ->
                 LET count == Resolve(c.exprs[1], "int", lab1)
                 IN  IF count.err = "" THEN Times(DefinedNames(c.body), count.int)
                     ELSE <<>>
           [] OTHER -> <<>>)

\* One of the names is in dom already, or is defined twice in the sequence.
Clash(names, dom) ==
    \E i \in 1..Len(names) :
        names[i] \in dom \/ \E j \in 1..(i - 1) : names[j] = names[i]

C3_Step ==
    Stepped =>
        /\ \A n \in DOMAIN labels : n \in DOMAIN labels' /\ labels'[n] = labels[n]
        /\ Clash(Attempts(LastCmd', labels, PC), DOMAIN labels) =>
              /\ phase' = "failed"
              /\ error' = RedefinitionErr

\* C3: a command that defines a name already in the symbol table (by a label,
\* by .EQU, inside an included file or in a replay of .REPEAT) fails with the
\* Redefinition error whatever the new value is, and every name of the table
\* keeps the value it was first bound to.
C3_Redefinition == [][C3_Step]_vars

\* C3 witness: an included file's .EQU A, 1 failed with Redefinition while A
\* was bound to the same value 1, and A still is.
C3_Witness ==
    /\ phase = "failed"
    /\ error = RedefinitionErr
    /\ LastCmd = Include(<<>>, <<Equ("A", Lit(1))>>)
    /\ "A" \in DOMAIN labels
    /\ labels["A"] = Lit(1)

\* The count of the .REPEAT command c is a symbol that the table, with the
\* labels of c bound, does not hold.
CountUndefined(c, lab) ==
    /\ c.command = ".REPEAT"
    /\ c.exprs[1].op = "sym"
    /\ c.exprs[1].name \notin DOMAIN lab \cup Range(c.labels)
    /\ ~Clash(c.labels, DOMAIN lab)

C7_Step ==
    (Stepped /\ CountUndefined(LastCmd', labels)) =>
        /\ phase' = "failed"
        /\ error' = RepeatCountErr
        /\ writes' = writes
        /\ PC' = PC
        /\ build' = build
        /\ DOMAIN labels' = DOMAIN labels \cup Range(LastCmd'.labels)

\* C7: a .REPEAT whose count is a symbol that is not in the symbol table when
\* the command is processed fails at once with the count-must-be-known error
\* and none of its body commands runs: nothing is emitted, PC stays and the
\* body defines no name.
C7_RepeatCount == [][C7_Step]_vars

\* C7 witness: .REPEAT N failed with the count error before N was defined;
\* its body, which emits a byte, left the write log and PC as they were.
C7_Witness ==
    /\ phase = "failed"
    /\ error = RepeatCountErr
    /\ Len(history) >= 2
    /\ LastCmd.command = ".REPEAT"
    /\ LastCmd.exprs[1] = Sym("N")
    /\ LastCmd.body = <<Directive(".BYTE", <<"A">>, <<Lit(1)>>)>>
    /\ "N" \notin DOMAIN labels
    /\ "A" \notin DOMAIN labels
    /\ history[Len(history)].w1 = history[Len(history)].w0
    /\ history[Len(history)].pc1 = history[Len(history)].pc0

-----------------------------------------------------------------------------
(* Specification SpecRef: data words and instructions that reference the   *)
(* name L, which a label or .EQU defines before or after them.             *)

Indexed(command, labs, reg, extra, isOffset) ==
    Cmd(command, labs, <<>>, <<TupleOp(reg, "N(Rn)", extra, isOffset)>>, "", <<>>)

RefLabels   == {<<>>, <<"L">>}
RefOperands == {Sym("L"), Lit(6)}
RefEquVals  == {6, 258}
RefLinks    == {8}

RefWord == \E l \in RefLabels, e \in RefOperands : Step(Directive(".WORD", l, <<e>>))
RefInc  == \E l \in RefLabels, o \in BOOLEAN :
               Step(Indexed("INC", l, IF o THEN "PC" ELSE "R1", Sym("L"), o))
RefBr   == \E l \in RefLabels : Step(Branch("BR", l, Sym("L"), FALSE))
RefEqu  == \E v \in RefEquVals : Step(Equ("L", Lit(v)))
RefLink == \E v \in RefLinks : Step(Directive(".LINK", <<>>, <<Lit(v)>>))

NextRef ==
    \/ RefWord
    \/ RefInc
    \/ RefBr
    \/ RefEqu
    \/ RefLink
    \/ Link

SpecRef == Init /\ [][NextRef]_vars

\* The address the unit starts at.
Start == IF history = <<>> THEN PC ELSE history[1].pc0

\* A unit compiled and linked from its first command on.
Linked(cmds) ==
    LET st == compileFile(Compiler(Start, project), cmds)
    IN  IF st.err # ""
        THEN [err |-> st.err, array |-> <<>>, output |-> <<>>, link_address |-> Start]
        ELSE IF labelErrors(st) # {}
        THEN [err |-> UndefinedSymbol, array |-> <<>>, output |-> <<>>, link_address |-> Start]
        ELSE link(st)

\* Operand e with a reference to a name replaced by the value the name has in
\* the final symbol table.
Direct(e) ==
    IF e.op = "sym" /\ IntOf(e).err = "" THEN Lit(IntOf(e).int) ELSE e

\* Command c with the references of its operands replaced by their addresses.
DirectCmd(c) ==
    Cmd(c.command, c.labels,
        [k \in 1..Len(c.exprs) |->
            IF c.command \in {".WORD", ".BYTE"} THEN Direct(c.exprs[k]) ELSE c.exprs[k]],
        [k \in 1..Len(c.ops) |->
            [kind |-> c.ops[k].kind, reg |-> c.ops[k].reg, addr |-> c.ops[k].addr,
             isOffset |-> c.ops[k].isOffset, expr |-> Direct(c.ops[k].expr)]],
        c.name, c.body)

DirectUnit == [i \in 1..Len(history) |-> DirectCmd(Commands[i])]

\* The unit with commands i and i+1 in the other order.
Swapped(i) ==
    [k \in 1..Len(history) |->
        IF k = i THEN Commands[i + 1] ELSE IF k = i + 1 THEN Commands[i] ELSE Commands[k]]

References(c, n) ==
    \/ \E k \in 1..Len(c.exprs) : c.exprs[k] = Sym(n)
    \/ \E k \in 1..Len(c.ops) : c.ops[k].expr = Sym(n)

\* C1: in a linked unit every data word and instruction operand that
\* references a name is encoded with the value the name has in the final
\* symbol table, wherever the name is defined: the image is the one of the
\* unit whose operands are those addresses written directly, and it does not
\* change when a .EQU of the name and a neighbouring command that references
\* it change places.
C1_ForwardReference ==
    phase = "linked" =>
        /\ LET d == Linked(DirectUnit)
           IN  d.err = "" /\ d.array = array /\ d.output = output
        /\ \A i \in 1..(Len(history) - 1) :
              (Commands[i].command = ".EQU" \/ Commands[i + 1].command = ".EQU") =>
                  LET s == Linked(Swapped(i))
                  IN  s.err = "" /\ s.array = array /\ s.output = output

\* C1 witness: a linked unit where .WORD L comes before the command that
\* carries the label L, and the word holds the address of L.
C1_Witness ==
    /\ phase = "linked"
    /\ \E i \in 1..Len(history) : \E j \in (i + 1)..Len(history) :
          /\ Commands[i] = Directive(".WORD", <<>>, <<Sym("L")>>)
          /\ "L" \in Range(Commands[j].labels)
          /\ IntOf(Sym("L")).err = ""
          /\ IntOf(Sym("L")).int > 0
          /\ array[IntOf(history[i].pc0).int + 1] = IntOf(Sym("L")).int % 256
          /\ array[IntOf(history[i].pc0).int + 2] = IntOf(Sym("L")).int \div 256

-----------------------------------------------------------------------------
(* Specification SpecEmit: the emitters writeByte, writeWord and           *)
(* writeBytes between .LINK directives that move PC, with labels.          *)

EmitLabels   == {<<>>, <<"L">>}
EmitBytes    == {7, 9}
EmitWords    == {513}
EmitCounts   == {Lit(2), Sym("K")}
EmitLinks    == {4, 8}
EmitEquVals  == {3}

EmitByte == \E l \in EmitLabels, v \in EmitBytes : Step(Directive(".BYTE", l, <<Lit(v)>>))
EmitWord == \E v \in EmitWords : Step(Directive(".WORD", <<>>, <<Lit(v)>>))
EmitBlkb == \E n \in EmitCounts : Step(Directive(".BLKB", <<>>, <<n>>))
EmitLink == \E l \in EmitLabels, v \in EmitLinks :
                /\ l = <<>> \/ v = 8
                /\ Step(Directive(".LINK", l, <<Lit(v)>>))
EmitEqu  == \E v \in EmitEquVals : Step(Equ("K", Lit(v)))

NextEmit ==
    \/ EmitByte
    \/ EmitWord
    \/ EmitBlkb
    \/ EmitLink
    \/ EmitEqu
    \/ Link

SpecEmit == Init /\ [][NextEmit]_vars

\* The write-log entries the command of history entry h appended.
EntriesOf(h) == (h.w0 + 1)..h.w1

\* Everything history entry h emitted resolves against the symbol table.
Resolved(h) ==
    /\ IntOf(h.pc0).err = ""
    /\ IntOf(h.pc1).err = ""
    /\ \A j \in EntriesOf(h) : EntryOk(j)

\* The number of write-log entries the emits of a command append: one per
\* writeByte and per writeBytes, two per writeWord.
EmitCount(c) ==
    CASE c.command = ".BYTE" -> Len(c.exprs)
      [] c.command = ".WORD" -> 2 * Len(c.exprs)
      [] c.command = ".BLKB" -> 1
      [] OTHER -> 0

\* The entries of h lie one after the other from the PC held before the
\* command, and PC ends right after the last byte.
Contiguous(h) ==
    /\ h.w1 > h.w0 => writes[h.w0 + 1].addr = h.pc0
    /\ \A j \in EntriesOf(h) :
          EntryAddr(j).int + Len(EntryBytes(j)) =
              IF j = h.w1 THEN IntOf(h.pc1).int ELSE EntryAddr(j + 1).int
    /\ \A j \in EntriesOf(h) :
          h.cmd.command \in {".BYTE", ".WORD"} => Len(EntryBytes(j)) = 1
    /\ h.w1 = h.w0 => IntOf(h.pc1).int = IntOf(h.pc0).int

C11_Log ==
    \A i \in 1..Len(history) :
        (history[i].cmd.command # ".LINK" /\ (phase = "failed" => i < Len(history))) =>
            /\ history[i].w1 = history[i].w0 + EmitCount(history[i].cmd)
            /\ Resolved(history[i]) => Contiguous(history[i])

C11_Step ==
    /\ Len(writes') >= Len(writes)
    /\ SubSeq(writes', 1, Len(writes)) = writes

\* C11: every emit appends write-log entries that start at the PC held before
\* the emit and cover consecutive addresses, PC then is the old PC plus the
\* number of bytes emitted (1 for writeByte, 2 for writeWord, the length of
\* the sequence for writeBytes), and no step modifies, reorders or removes an
\* entry the write log already holds.
C11_EmitLog == []C11_Log /\ [][C11_Step]_vars

\* C11 witness: .BLKB K was emitted before K was defined as 3; its entry
\* starts at the old PC, holds 3 bytes, and PC moved on by 3.
C11_Witness ==
    /\ phase = "compile"
    /\ Len(history) = 3
    /\ history[1].cmd = Directive(".BYTE", <<>>, <<Lit(7)>>)
    /\ history[2].cmd = Directive(".BLKB", <<>>, <<Sym("K")>>)
    /\ history[3].cmd = Equ("K", Lit(3))
    /\ Resolved(history[2])
    /\ IntOf(history[2].pc0).int = IntOf(history[1].pc0).int + 1
    /\ EntryAddr(2).int = IntOf(history[2].pc0).int
    /\ Len(EntryBytes(2)) = 3
    /\ IntOf(PC).int = IntOf(history[2].pc0).int + 3

\* The byte entry j of the write log stores at address a.
EntryByte(j, a) == EntryBytes(j)[a - EntryAddr(j).int + 1]

\* The addresses two entries of the write log both cover.
Shared(j, m) ==
    {a \in EntryAddr(j).int..(EntryAddr(j).int + Len(EntryBytes(j)) - 1) : Covers(m, a)}

\* C12: when write-log entries j and m, j appended before m, cover the same
\* address, the linked memory image does not keep the byte of j there unless a
\* later entry stores the same byte: it holds the byte of the entry appended
\* last among those that cover the address.
C12_LastWriteWins ==
    phase = "linked" =>
        \A m \in 1..Len(writes) : \A j \in 1..(m - 1) : \A a \in Shared(j, m) :
            /\ a + 1 <= Len(array)
            /\ LastAt(m, a) => array[a + 1] = EntryByte(m, a)
            /\ array[a + 1] = EntryByte(j, a) =>
                  \E k \in (j + 1)..Len(writes) :
                      Covers(k, a) /\ EntryByte(k, a) = EntryByte(j, a)

\* C12 witness: .BYTE 7 at address 4, .LINK 4, .BYTE 9: both entries cover
\* address 4 and the linked image holds 9 there.
C12_Witness ==
    /\ phase = "linked"
    /\ Len(writes) = 2
    /\ Covers(1, 4) /\ Covers(2, 4)
    /\ EntryByte(1, 4) = 7
    /\ EntryByte(2, 4) = 9
    /\ array[5] = 9

\* History entry i ran its command (the last entry of a failed unit did not).
Ran(i) == i \in 1..Len(history) /\ (phase = "failed" => i < Len(history))

\* C13: every label attached to a command is bound to the PC held before the
\* command runs: on an emitting command it is the address of the first byte
\* the command emits, on .LINK it is the old PC whatever the new origin is.
C13_LabelBinding ==
    \A i \in 1..Len(history) : \A l \in Range(history[i].cmd.labels) :
        Ran(i) =>
            /\ l \in DOMAIN labels
            /\ labels[l] = history[i].pc0
            /\ history[i].w1 > history[i].w0 =>
                  /\ writes[history[i].w0 + 1].addr = labels[l]
                  /\ EntryOk(history[i].w0 + 1) =>
                        IntOf(Sym(l)).int = EntryAddr(history[i].w0 + 1).int
            /\ history[i].cmd.command = ".LINK" =>
                  /\ history[i].pc1 # history[i].pc0 => labels[l] # history[i].pc1
                  /\ history[i].pc1 = history[i].cmd.exprs[1]

\* C13 witness: after .BYTE 7 at address 4, L: .LINK 8 bound L to 5, the old
\* PC, and PC is 8.
C13_Witness ==
    /\ Len(history) = 2
    /\ history[1].cmd = Directive(".BYTE", <<>>, <<Lit(7)>>)
    /\ history[2].cmd = Directive(".LINK", <<"L">>, <<Lit(8)>>)
    /\ IntOf(Sym("L")) = OkInt(5)
    /\ PC = Lit(8)

\* The .LINK commands of the history that ran.
LinkIndexes == {i \in 1..Len(history) : Ran(i) /\ history[i].cmd.command = ".LINK"}

\* The link address the unit has before link() resolves it.
C14_LinkAddress ==
    phase # "linked" =>
        link_address = IF project \/ LinkIndexes = {} THEN Start
                       ELSE history[Max(LinkIndexes)].cmd.exprs[1]

C14_Step ==
    /\ (Stepped /\ LastCmd'.command = ".LINK" /\ phase' # "failed") =>
          /\ PC' = LastCmd'.exprs[1]
          /\ link_address' = IF project THEN link_address ELSE LastCmd'.exprs[1]
          /\ writes' = writes
          /\ build' = build
    /\ C14_LinkAddress'

\* C14: .LINK v sets PC to v; it sets the link address to v when no project
\* is active and leaves it as it was when one is; the write log and the build
\* descriptor stay as they were; without a project the link address of the
\* unit is the value of the last .LINK processed.
C14_SetOrigin == [][C14_Step]_vars

\* C14 witness: without a project, .LINK 4, .BYTE 7, .LINK 8 leave the link
\* address and PC at 8 and the write log at its one entry.
C14_Witness ==
    /\ ~project
    /\ phase = "compile"
    /\ Len(history) = 3
    /\ history[1].cmd = Directive(".LINK", <<>>, <<Lit(4)>>)
    /\ history[2].cmd = Directive(".BYTE", <<>>, <<Lit(7)>>)
    /\ history[3].cmd = Directive(".LINK", <<>>, <<Lit(8)>>)
    /\ link_address = Lit(8)
    /\ PC = Lit(8)
    /\ Len(writes) = 1

-----------------------------------------------------------------------------
(* Specification SpecEnd: .END at the top level, in an included file and   *)
(* in the body of .REPEAT.                                                 *)

EndBytes     == {1, 2}
EndLabels    == {<<>>, <<"A">>}
EndBodies    == {<<Directive(".BYTE", <<>>, <<Lit(1)>>)>>,
                 <<Directive(".END", <<>>, <<>>)>>,
                 <<Directive(".BYTE", <<>>, <<Lit(1)>>), Directive(".END", <<>>, <<>>),
                   Directive(".BYTE", <<>>, <<Lit(2)>>)>>}
EndCounts    == {1, 2}

EndByte    == \E v \in EndBytes : Step(Directive(".BYTE", <<>>, <<Lit(v)>>))
EndEnd     == \E l \in EndLabels : Step(Directive(".END", l, <<>>))
EndInclude == \E l \in EndLabels, b \in EndBodies : Step(Include(l, b))
EndRepeat  == \E n \in EndCounts, b \in EndBodies : Step(RepeatCmd(<<>>, Lit(n), b))

NextEnd ==
    \/ EndByte
    \/ EndEnd
    \/ EndInclude
    \/ EndRepeat
    \/ Link

SpecEnd == Init /\ [][NextEnd]_vars

\* The commands of a list up to and including its first .END.
RECURSIVE UpToEnd(_)
UpToEnd(cmds) ==
    IF cmds = <<>> THEN <<>>
    ELSE IF Head(cmds).command = ".END" THEN <<Head(cmds)>>
    ELSE <<Head(cmds)>> \o UpToEnd(Tail(cmds))

HasEnd(cmds) == \E k \in 1..Len(cmds) : cmds[k].command = ".END"

\* Every command of the list handled in turn, one after the other.
RECURSIVE RunAll(_, _)
RunAll(st, cmds) ==
    IF cmds = <<>> \/ st.err # "" THEN st
    ELSE RunAll([handleCommand(st, Head(cmds)) EXCEPT !.eof = FALSE], Tail(cmds))

\* The compiler after command c has bound its labels.
Labelled(c) == defineLabels(Self, c.labels)

SameAs(st) ==
    /\ PC' = st.PC
    /\ labels' = st.labels
    /\ writes' = st.writes
    /\ build' = st.build
    /\ link_address' = st.link_address

C15_Step ==
    /\ phase = "ended" =>
          /\ PC' = PC /\ labels' = labels /\ writes' = writes /\ build' = build
          /\ history' = history
    /\ (Stepped /\ LastCmd'.command = ".END" /\ Labelled(LastCmd').err = "") =>
          /\ phase' = "ended"
          /\ SameAs(Labelled(LastCmd'))
    /\ (Stepped /\ LastCmd'.command = ".INCLUDE" /\ Labelled(LastCmd').err = "") =>
          /\ phase' = "compile"
          /\ SameAs(RunAll(Labelled(LastCmd'), UpToEnd(LastCmd'.body)))

\* C15: after .END at the top level no later command is processed: PC, the
\* symbol table, the write log and the build descriptor stay as they are.  An
\* .END in an included file ends that file only: the commands after it in the
\* included file do nothing, and the including file goes on with the command
\* after its .INCLUDE.
C15_End == [][C15_Step]_vars

\* C15 witness: the included file .BYTE 1 / .END / .BYTE 2 emitted one byte,
\* and the including file went on with .BYTE 2 after the .INCLUDE.
C15_Witness ==
    /\ phase = "compile"
    /\ Len(history) = 2
    /\ history[1].cmd.command = ".INCLUDE"
    /\ Len(history[1].cmd.body) = 3
    /\ history[1].w1 = history[1].w0 + 1
    /\ history[2].cmd = Directive(".BYTE", <<>>, <<Lit(2)>>)
    /\ Len(writes) = 2
    /\ PC = Lit(Start.val + 2)

\* The step ran a .REPEAT whose body holds an .END, at least once.
EndInRepeat ==
    /\ Stepped
    /\ LastCmd'.command = ".REPEAT"
    /\ HasEnd(LastCmd'.body)
    /\ LastCmd'.exprs[1].val >= 1

C16_Step ==
    EndInRepeat =>
        /\ phase' = "compile"
        /\ SameAs(RunAll(Self, UpToEnd(LastCmd'.body)))

\* C16: an .END executed in the body of .REPEAT ends the replay: the rest of
\* the body and all remaining iterations are skipped, and the enclosing
\* command stream goes on with the command after the .REPEAT.
C16_EndInRepeat == [][C16_Step]_vars

C16_CodeStep ==
    EndInRepeat =>
        /\ phase' = "compile"
        /\ SameAs(RunAll(Self, Times(UpToEnd(LastCmd'.body), LastCmd'.exprs[1].val)))

\* What lines 187-192 do: the .END ends the iteration it is executed in, and
\* every remaining iteration replays the body up to its .END again.
C16_CodeReplay == [][C16_CodeStep]_vars

-----------------------------------------------------------------------------
(* The symbol table after link().                                          *)

\* C17: after link() has run its pass over the symbol table, every name of
\* the table maps to a concrete integer, none to a lazy value or expression.
C17_SymbolsResolved ==
    phase = "linked" => \A n \in DOMAIN labels : IsLit(labels[n])

\* What lines 58-59 do: every name resolves to an integer without error, and
\* the table holds the value it held before link().
C17_CodeSymbols ==
    phase = "linked" => \A n \in DOMAIN labels : IntOf(labels[n]).err = ""

-----------------------------------------------------------------------------
(* Specification SpecInclude: the chain of active files.  .INCLUDE calls   *)
(* include -> addFile -> compileFile, which reads the named file and runs  *)
(* its commands in a loop of its own before the including loop goes on;    *)
(* active holds, for every compileFile on the call stack, the file and the *)
(* position of its loop.                                                   *)

\* The deepest chain of active files the model follows.
MaxDepth == 24

IncludeFile(labs, file) == Cmd(".INCLUDE", labs, <<>>, NoArgs, file, <<>>)

\* The files open(file) can read, as the parser hands their commands over.
FileSystem ==
    [main |-> <<Directive(".BYTE", <<>>, <<Lit(1)>>), IncludeFile(<<>>, "a"),
                Directive(".BYTE", <<>>, <<Lit(2)>>)>>,
     a    |-> <<Directive(".BYTE", <<>>, <<Lit(3)>>), IncludeFile(<<>>, "b")>>,
     b    |-> <<IncludeFile(<<>>, "a")>>,
     self |-> <<Directive(".BYTE", <<>>, <<Lit(4)>>), IncludeFile(<<"S">>, "self")>>,
     leaf |-> <<Directive(".BYTE", <<>>, <<Lit(5)>>), Directive(".END", <<>>, <<>>),
                Directive(".BYTE", <<>>, <<Lit(6)>>)>>,
     top  |-> <<IncludeFile(<<>>, "leaf"), IncludeFile(<<>>, "leaf")>>]

\* The files addFile is first called with.
RootFiles == {"main", "self", "top", "b"}

Frame(file, pos) == [file |-> file, pos |-> pos]

InitInclude ==
    /\ project \in BOOLEAN
    /\ \E l \in InitLinks :
          /\ PC = Lit(l)
          /\ link_address = Lit(l)
    /\ labels = NoLabels
    /\ writes = <<>>
    /\ build = <<>>
    /\ array = <<>>
    /\ output = <<>>
    /\ phase = "compile"
    /\ error = ""
    /\ history = <<>>
    /\ \E f \in RootFiles : active = <<Frame(f, 1)>>

Top     == active[Len(active)]
AtEnd   == Top.pos > Len(FileSystem[Top.file])
Current == FileSystem[Top.file][Top.pos]
Popped  == SubSeq(active, 1, Len(active) - 1)
Advanced == [active EXCEPT ![Len(active)] = Frame(Top.file, Top.pos + 1)]

\* handleCommand on .INCLUDE: the labels are bound, then addFile reads the
\* file and compileFile starts on its first command.
Enter ==
    /\ phase = "compile"
    /\ active # <<>>
    /\ Len(active) < MaxDepth
    /\ ~AtEnd
    /\ Current.command = ".INCLUDE"
    /\ LET st == defineLabels(Self, Current.labels)
       IN  /\ labels' = st.labels
           /\ error' = st.err
           /\ phase' = IF st.err # "" THEN "failed" ELSE "compile"
           /\ active' = IF st.err # "" THEN active
                        ELSE Append(Advanced, Frame(Current.name, 1))
    /\ UNCHANGED <<PC, link_address, writes, build, project, array, output, history>>

\* One iteration of the loop of the innermost compileFile on a command that
\* is not .INCLUDE; EOFError ends that loop.
Exec ==
    /\ phase = "compile"
    /\ active # <<>>
    /\ ~AtEnd
    /\ Current.command # ".INCLUDE"
    /\ LET r == handleCommand(Self, Current)
       IN  /\ labels' = r.labels
           /\ PC' = r.PC
           /\ link_address' = r.link_address
           /\ writes' = r.writes
           /\ build' = r.build
           /\ error' = r.err
           /\ phase' = IF r.err # "" THEN "failed" ELSE "compile"
           /\ active' = IF r.err # "" THEN active
                        ELSE IF r.eof THEN Popped ELSE Advanced
    /\ UNCHANGED <<project, array, output, history>>

\* The loop of the innermost compileFile is through: include returns.
Return ==
    /\ phase = "compile"
    /\ active # <<>>
    /\ AtEnd
    /\ active' = Popped
    /\ UNCHANGED <<labels, PC, link_address, writes, build, project, array, output,
                   phase, error, history>>

NextInclude ==
    \/ Enter
    \/ Exec
    \/ Return
    \/ Link

SpecInclude == InitInclude /\ [][NextInclude]_vars

NoFileTwice ==
    \A i \in 1..Len(active) : \A j \in 1..Len(active) :
        i # j => active[i].file # active[j].file

\* C18: the include recursion is cut off: either no file is entered while it
\* is in the chain of active files (cycle detection), or the chain stays
\* shorter than a depth bound, here any bound below the deepest chain the
\* model follows.
C18_IncludeGuard == NoFileTwice \/ Len(active) < MaxDepth

\* What the code does with files that do not include each other in a cycle:
\* the chain is never deeper than the number of files.
C18_CodeAcyclic ==
    (active # <<>> /\ active[1].file = "top") => Len(active) <= 2

-----------------------------------------------------------------------------
(* Specification SpecSob: SOB around the boundaries of its range.          *)

Sob(labs, reg, target) ==
    Cmd("SOB", labs, <<>>, <<RegOp(reg), ExprOp(target, FALSE)>>, "", <<>>)

SobLinks    == {228}
SobOperands == {<<"R1", Lit(102)>>, <<"R1", Lit(104)>>, <<"SP", Lit(104)>>,
                <<"R1", Lit(229)>>, <<"R1", Lit(230)>>, <<"R2", Lit(231)>>,
                <<"R1", Lit(232)>>, <<"R5", Sym("L")>>}

SobLink  == \E v \in SobLinks : Step(Directive(".LINK", <<>>, <<Lit(v)>>))
SobSob   == \E o \in SobOperands : Step(Sob(<<>>, o[1], o[2]))
SobLabel == Step(Directive("", <<"L">>, <<>>))

NextSob ==
    \/ SobLink
    \/ SobSob
    \/ SobLabel
    \/ Link

SpecSob == Init /\ [][NextSob]_vars

IsSob(h) == h.cmd.command = "SOB" /\ h.w1 >= h.w0 + 2

\* d = P + 2 - T of the SOB of history entry h, when P and T are known.
SobDistance(h) == IntOf(h.pc0).int + 2 - IntOf(h.cmd.ops[2].expr).int
SobKnown(h)    == IntOf(h.cmd.ops[2].expr).err = "" /\ IntOf(h.pc0).err = ""

\* 0o077000 | (registerIndex(reg) << 6) | w
SobWord(reg, w) == BitOr(BitOr(SobOpcode, ShiftLeft(encodeRegister(reg), 6)), w)

\* The first word of h, at the address of the instruction, resolves to word.
EncodesWord(h, word) ==
    /\ EntryValue(h.w0 + 1) = OkInt(word % 256)
    /\ EntryValue(h.w0 + 2) = OkInt(word \div 256)
    /\ EntryAddr(h.w0 + 1) = OkInt(IntOf(h.pc0).int)
    /\ EntryAddr(h.w0 + 2) = OkInt(IntOf(h.pc0).int + 1)

\* C19: for SOB reg, T at P with d = P + 2 - T, an odd d fails with the
\* unaligned error; an even d with w = d/2 outside 0..63 fails with the too
\* far error (every target above P + 2 is rejected); with w in 0..63 the
\* instruction word is 0o077000 | (registerIndex(reg) << 6) | w.
C19_Sob ==
    \A i \in 1..Len(history) :
        LET h == history[i]
            d == SobDistance(h)
        IN  (IsSob(h) /\ SobKnown(h)) =>
              /\ (d % 2 = 1 => Rejects(h, UnalignedSob))
              /\ (d % 2 = 0 /\ (d \div 2 < 0 \/ d \div 2 > 63) => Rejects(h, TooFarSob))
              /\ (d < 0 => phase # "linked")
              /\ (d % 2 = 0 /\ d \div 2 \in 0..63 =>
                    EncodesWord(h, SobWord(h.cmd.ops[1].reg, d \div 2)))

\* C19 witness: a linked unit with SOB R1 at 228 back to 104, w = 63: the
\* word 0o077177 is stored at 228.
C19_Witness ==
    /\ phase = "linked"
    /\ \E i \in 1..Len(history) :
          /\ IsSob(history[i]) /\ SobKnown(history[i])
          /\ history[i].cmd.ops[1].reg = "R1"
          /\ IntOf(history[i].pc0).int = 228
          /\ SobDistance(history[i]) = 126
          /\ array[229] = 32383 % 256
          /\ array[230] = 32383 \div 256

-----------------------------------------------------------------------------
(* Specification SpecExtra: instructions with extra operand words.         *)

TwoArg(command, labs, op1, op2) == Cmd(command, labs, <<>>, <<op1, op2>>, "", <<>>)

ExtraLinks   == {1000}
ExtraTargets == {Lit(300), Sym("L")}
ExtraPairs   ==
    {<<TupleOp("PC", "N(Rn)", Sym("L"), TRUE), TupleOp("R2", "N(Rn)", Lit(300), FALSE)>>,
     <<TupleOp("R0", "Rn", NoneE, FALSE), TupleOp("PC", "N(Rn)", Sym("L"), TRUE)>>,
     <<TupleOp("PC", "N(Rn)", Lit(2), TRUE), TupleOp("PC", "@N(Rn)", Sym("L"), TRUE)>>}

ExtraLink  == \E v \in ExtraLinks : Step(Directive(".LINK", <<>>, <<Lit(v)>>))
ExtraInc   == \E t \in ExtraTargets, o \in BOOLEAN : Step(Indexed("INC", <<>>, "PC", t, o))
ExtraMov   == \E p \in ExtraPairs : Step(TwoArg("MOV", <<>>, p[1], p[2]))
ExtraLabel == Step(Directive("", <<"L">>, <<>>))

NextExtra ==
    \/ ExtraLink
    \/ ExtraInc
    \/ ExtraMov
    \/ ExtraLabel
    \/ Link

SpecExtra == Init /\ [][NextExtra]_vars

IsInstruction(h) ==
    h.cmd.command \in DOMAIN one_arg_commands \cup DOMAIN two_arg_commands

\* The operands of a command that carry an extra word, in operand order.
HasExtra(o) == o.kind \in {"tuple", "expr"} /\ o.expr # NoneE
Extras(c)   == SelectSeq(c.ops, HasExtra)

\* The 16-bit word that stores v.
AsWord(v) == IF v < 0 THEN v + 65536 ELSE v

\* The k-th extra word of h: its address A is P + 2k, after the primary word
\* and the extra words before it; it stores T, or T - A - 2 for an operand
\* flagged offset-relative.
ExtraWordOk(h, k) ==
    LET o == Extras(h.cmd)[k]
        A == IntOf(h.pc0).int + 2 * k
        T == IntOf(o.expr)
        v == IF o.isOffset THEN T.int - A - 2 ELSE T.int
        j == h.w0 + 2 * k + 1
    IN  /\ EntryAddr(j) = OkInt(A)
        /\ EntryAddr(j + 1) = OkInt(A + 1)
        /\ (T.err = "" /\ v \in -65536..65535) =>
              /\ EntryValue(j) = OkInt(AsWord(v) % 256)
              /\ EntryValue(j + 1) = OkInt(AsWord(v) \div 256)

\* C20: the extra operand words of an instruction follow its primary word in
\* operand order, each advancing PC by 2; an operand flagged offset-relative
\* with target T stores T - A - 2, A being the address of that extra word (the
\* PC when it is emitted), not the address of the instruction's first word.
C20_ExtraWords ==
    \A i \in 1..Len(history) :
        LET h == history[i]
            n == Len(Extras(h.cmd))
        IN  (IsInstruction(h) /\ Ran(i) /\ IntOf(h.pc0).err = "") =>
              /\ h.w1 = h.w0 + 2 + 2 * n
              /\ EntryAddr(h.w0 + 1) = OkInt(IntOf(h.pc0).int)
              /\ IntOf(h.pc1) = OkInt(IntOf(h.pc0).int + 2 + 2 * n)
              /\ \A k \in 1..n : ExtraWordOk(h, k)

\* C20 witness: a linked MOV at 1000 with two offset-relative operands, to
\* address 2 and to L = 1006: the extra word at 1002 holds 2 - 1002 - 2 as a
\* 16-bit word and the one at 1004 holds 1006 - 1004 - 2 = 0.
C20_Witness ==
    /\ phase = "linked"
    /\ Len(history) = 3
    /\ history[2].cmd.command = "MOV"
    /\ history[2].pc0 = Lit(1000)
    /\ Len(Extras(history[2].cmd)) = 2
    /\ Extras(history[2].cmd)[1].expr = Lit(2)
    /\ IntOf(Sym("L")) = OkInt(1006)
    /\ array[1003] = (65536 - 1002) % 256
    /\ array[1004] = (65536 - 1002) \div 256
    /\ array[1005] = 0
    /\ array[1006] = 0

====
